---- MODULE Spec2Model ----
(***************************************************************************)
(* react-mobx-local-model: observerWithModel (src/src/observerWithModel.ts) *)
(* and ReactModel (src/src/ReactModel.ts), together with the test model    *)
(* and test component of the repository's test file (src/unnamed/part_000).*)
(*                                                                         *)
(* The state is that of the React fibers of one wrapped component (the     *)
(* useRef cells, the props of the last render, the pending passive         *)
(* effects, the pending forced update of ObserverWrapper) and of the MobX   *)
(* objects the wrapper allocates (the observable box, the model, its       *)
(* per-key computed values, the model's own computed and observable).      *)
(***************************************************************************)
EXTENDS Integers, Sequences, FiniteSets, TLC

\* ------------------------------------------------------------------ bounds
\* External events (mounts, parent renders, model actions, accessor calls,
\* unmounts) delivered in one behaviour.
MaxEvents == 4

\* ------------------------------------------------------------ input domains
\* Component slots of the parent; Spec mounts slot 1 only.
Slots == {1, 2}
\* Keys of TestModel's props type { value: number; text: string }.
Keys == {"value", "text"}
\* Values the parent passes for `value` and for `text`.
ValueSet == {10, 11, 20}
TextSet == {"test", "other"}
PropsSet == [value : ValueSet, text : TextSet]
\* Refs the parent may pass; "none" is an absent ref.
RefSet == {"none", "refA"}

\* multiplier = 10 of TestModel.
InitialMultiplier == 10

\* A nullable cell: Null, or Some(x) holding x.
Null == << >>
Some(x) == << x >>

\* ------------------------------------------------------------ comparers
\* comparer.identity, and an application-supplied comparator that treats two
\* numbers of the same decade as equal.  "none" is an absent annotation.
Equals(eq, a, b) ==
  CASE eq = "identity" -> a = b
    [] eq = "sameDecade" -> (a \div 10) = (b \div 10)

\* comparer.shallow as the code uses it on two props objects: the same own
\* keys, and per key the same value.
ShallowEqual(a, b) ==
  /\ DOMAIN a = DOMAIN b
  /\ \A k \in DOMAIN a : a[k] = b[k]

\* The model classes given to observerWithModel, as the annotations their
\* constructor hands to super(): TestModel's { value: comparer.identity }, and
\* one with a custom comparator on `value`.  Neither annotates `text`.
TestModel == [value |-> "identity", text |-> "none"]
ModelClasses ==
  { TestModel,
    [value |-> "sameDecade", text |-> "none"] }

\* ------------------------------------------------------------ call results
Return(v) == [kind |-> "return", value |-> << v >>, error |-> ""]
Throw(e) == [kind |-> "throw", value |-> << >>, error |-> e]
NoCall == [kind |-> "none", value |-> << >>, error |-> ""]

\* The error die() throws, and the TypeError of calling a null property.
DieError == "need to be reimplemented with useModel"
NotAFunction == "TypeError: get is not a function"

\* Mutant: die() returns undefined instead of throwing.
dieReturnsUndefined == Return("undefined")

\* die(): throws.
die == Throw(DieError)

\* ------------------------------------------------------------ the wrap call
\* The render targets handed to observerWithModel: a function component, a
\* forwardRef component, a forwardRef object whose render is not a function,
\* and a component already wrapped by React.memo or by observer.
BaseComponents == {"function", "forwardRef", "forwardRefWithoutRender", "memo"}

\* The errors the wrap call throws.
DoubleWrapError == "You are trying to use observer on a function component wrapped in either another observer or React.memo"
RenderNotAFunctionError == "render property of ForwardRef was not a function"

\* Mutant: the wrap call does not look for a memo-wrapped render target.
observerWithModelUnguarded(base) ==
  IF base = "forwardRef"
  THEN [component |-> Return("memo(forwardRef(observerComponent))"), useForwardRef |-> TRUE]
  ELSE IF base = "forwardRefWithoutRender"
  THEN [component |-> Throw(RenderNotAFunctionError), useForwardRef |-> TRUE]
  ELSE [component |-> Return("memo(observerComponent)"), useForwardRef |-> FALSE]

\* observerWithModel(Model, baseComponent): throws for a memo-wrapped target,
\* unwraps a forwardRef target (and throws when its render is not a function),
\* and otherwise returns the memoized component.
observerWithModel(base) ==
  IF base = "memo"
  THEN [component |-> Throw(DoubleWrapError), useForwardRef |-> FALSE]
  ELSE IF base = "forwardRef"
  THEN [component |-> Return("memo(forwardRef(observerComponent))"), useForwardRef |-> TRUE]
  ELSE IF base = "forwardRefWithoutRender"
  THEN [component |-> Throw(RenderNotAFunctionError), useForwardRef |-> TRUE]
  ELSE [component |-> Return("memo(observerComponent)"), useForwardRef |-> FALSE]

\* ------------------------------------------------------- MobX computed values
\* A computed value: its derivation state, its memoized value (Null before the
\* first tracked evaluation) and its equality comparer.
NewComputed(equals) == [state |-> "NOT_TRACKING", val |-> Null, equals |-> equals]

\* Mutant: a stale computed serves its memoized value without running the
\* derivation again.
ComputedGetNeverRefreshes(ref, fresh, tracking) ==
  IF ref.state = "NOT_TRACKING"
  THEN [ref |-> [ref EXCEPT !.state = IF tracking THEN "UP_TO_DATE" ELSE @,
                            !.val = Some(fresh)],
        out |-> fresh, evaluated |-> TRUE, changed |-> tracking]
  ELSE [ref |-> [ref EXCEPT !.state = "UP_TO_DATE"], out |-> ref.val[1],
        evaluated |-> FALSE, changed |-> FALSE]

\* Mutant: the computed never serves its memoized value; every read runs the
\* derivation.
ComputedGetAlwaysEvaluates(ref, fresh, tracking) ==
  [ref |-> [ref EXCEPT !.state = IF tracking THEN "UP_TO_DATE" ELSE @,
                       !.val = Some(fresh)],
   out |-> fresh, evaluated |-> TRUE,
   changed |-> ref.state = "NOT_TRACKING" \/ ref.val # Some(fresh)]

\* IComputedValue.get() of a per-key computed whose derivation would now yield
\* `fresh`.  Read outside a tracking derivation while nothing observes it, the
\* derivation runs and nothing is memoized.  Otherwise the memoized value is
\* returned when up to date, and a stale or suspended computed is re-evaluated;
\* the memoized value is replaced only when the comparer finds the new value
\* different.
ComputedGet(ref, fresh, tracking) ==
  IF ~tracking /\ ref.state = "NOT_TRACKING"
  THEN [ref |-> [ref EXCEPT !.val = Some(fresh)], out |-> fresh,
        evaluated |-> TRUE, changed |-> FALSE]
  ELSE IF ref.state = "UP_TO_DATE"
  THEN [ref |-> ref, out |-> ref.val[1], evaluated |-> FALSE, changed |-> FALSE]
  ELSE LET changed == \/ ref.state = "NOT_TRACKING"
                      \/ ~Equals(ref.equals, ref.val[1], fresh)
       IN [ref |-> [ref EXCEPT !.state = "UP_TO_DATE",
                               !.val = IF changed THEN Some(fresh) ELSE @],
           out |-> IF changed THEN fresh ELSE ref.val[1],
           evaluated |-> TRUE, changed |-> changed]

\* Map.set on the per-key cache.
MapSet(map, key, ref) ==
  [k \in (DOMAIN map) \cup {key} |-> IF k = key THEN ref ELSE map[k]]

EmptyMap == [k \in {} |-> NewComputed("identity")]

\* ------------------------------------------------------------------ the model
\* new Model(): the ReactModel constructor stores the annotations and sets
\* get to die; TestModel adds multiplier = 10 and the computed `value`, of
\* which the model keeps the state, the memoized result `val`, and `read`, the
\* result of this.get('value') that `val` was computed from.  `called` and
\* `made` record the accessor's history: the keys the installed accessor was
\* called with, and per key the number of computed(...) it created.
NewModel(id, annotations) ==
  [id |-> id, annotations |-> annotations, get |-> "die",
   multiplier |-> InitialMultiplier, map |-> EmptyMap,
   value |-> [state |-> "NOT_TRACKING", val |-> NoCall, read |-> NoCall],
   called |-> {}, made |-> [k \in Keys |-> 0]]

\* Mutant: the accessor is never installed on the constructed model.
createModelNotInstalled(id, annotations) == NewModel(id, annotations)

\* createModel: constructs the model and installs the accessor over a fresh,
\* empty per-key cache.
createModel(id, annotations) ==
  [NewModel(id, annotations) EXCEPT !.get = "installed"]

\* Mutant: dispose() written as a switch: called on a disposed model it puts
\* the accessor back.
disposeToggles(m) ==
  [m EXCEPT !.get = IF @ = "null" THEN "installed" ELSE "null", !.map = EmptyMap]

\* dispose(): Object.assign(model, { get: null }); map.clear().
dispose(m) == [m EXCEPT !.get = "null", !.map = EmptyMap]

\* Mutant: the per-key computed ignores the model's annotations and always
\* compares with comparer.identity.
InstalledGetIdentity(m, key, snap, tracking) ==
  LET ref0 == IF key \in DOMAIN m.map THEN m.map[key] ELSE NewComputed("identity")
      Result(r) == [m |-> [m EXCEPT !.map = MapSet(m.map, key, r.ref),
                                     !.called = @ \cup {key},
                                     !.made[key] = IF key \in DOMAIN m.map
                                                   THEN @ ELSE @ + 1],
                    out |-> Return(r.out),
                    ev |-> IF r.evaluated THEN {key} ELSE {},
                    changed |-> r.changed]
  IN Result(ComputedGet(ref0, snap[key], tracking))

\* Mutant: the accessor does not look the key up in the cache; every call
\* creates a new computed and stores it over the previous one.
InstalledGetUncached(m, key, snap, tracking) ==
  LET equals == IF m.annotations[key] # "none" THEN m.annotations[key] ELSE "identity"
      Result(r) == [m |-> [m EXCEPT !.map = MapSet(m.map, key, r.ref),
                                     !.called = @ \cup {key},
                                     !.made[key] = @ + 1],
                    out |-> Return(r.out),
                    ev |-> IF r.evaluated THEN {key} ELSE {},
                    changed |-> r.changed]
  IN Result(ComputedGet(NewComputed(equals), snap[key], tracking))

\* The accessor createModel installs: look the key's computed up in the cache,
\* create it with the key's annotated comparer (comparer.identity without one)
\* when absent, and return ref.get().  getProps() is the box's snapshot `snap`.
InstalledGet(m, key, snap, tracking) ==
  LET equals == IF m.annotations[key] # "none" THEN m.annotations[key] ELSE "identity"
      ref0 == IF key \in DOMAIN m.map THEN m.map[key] ELSE NewComputed(equals)
      Result(r) == [m |-> [m EXCEPT !.map = MapSet(m.map, key, r.ref),
                                     !.called = @ \cup {key},
                                     !.made[key] = IF key \in DOMAIN m.map
                                                   THEN @ ELSE @ + 1],
                    out |-> Return(r.out),
                    ev |-> IF r.evaluated THEN {key} ELSE {},
                    changed |-> r.changed]
  IN Result(ComputedGet(ref0, snap[key], tracking))

\* model.get(key) as a call: die() before installation, a TypeError once
\* dispose() has set get to null, the installed accessor in between.
CallGet(m, key, snap, tracking) ==
  CASE m.get = "die" -> [m |-> m, out |-> die, ev |-> {}, changed |-> FALSE]
    [] m.get = "null" -> [m |-> m, out |-> Throw(NotAFunction), ev |-> {}, changed |-> FALSE]
    [] m.get = "installed" -> InstalledGet(m, key, snap, tracking)

\* The getter of TestModel: this.get('value') * this.multiplier.
TestModelValue(m, snap, tracking) ==
  LET Result(g) == [m |-> g.m,
                    out |-> IF g.out.kind = "return"
                            THEN Return(g.out.value[1] * m.multiplier)
                            ELSE g.out,
                    read |-> g.out,
                    ev |-> g.ev]
  IN Result(CallGet(m, "value", snap, tracking))

\* Re-evaluation of the computed model.value (makeObservable's computed, default
\* comparer): run the getter and memoize its result.
RecomputeModelValue(m, snap, ev0) ==
  LET Result(r) ==
        [m |-> [r.m EXCEPT !.value = [state |-> "UP_TO_DATE", val |-> r.out,
                                      read |-> r.read]],
         out |-> r.out,
         ev |-> ev0 \cup r.ev \cup {"model.value"},
         changed |-> m.value.state = "NOT_TRACKING" \/ r.out # m.value.val]
  IN Result(TestModelValue(m, snap, TRUE))

\* Reading model.value inside a tracking derivation (the observer's render, or
\* the reaction's shouldCompute).  Up to date: the memoized result.  Possibly
\* stale: the observed per-key computed is re-read first, and the getter runs
\* again only when that computed reports a change.  Stale or suspended: the
\* getter runs.
ModelValueRead(m, snap) ==
  IF m.value.state = "UP_TO_DATE"
  THEN [m |-> m, out |-> m.value.val, ev |-> {}, changed |-> FALSE]
  ELSE IF m.value.state = "POSSIBLY_STALE"
  THEN LET Confirm(dep, m1, ev1) ==
             IF dep.changed
             THEN RecomputeModelValue(m1, snap, ev1)
             ELSE [m |-> [m1 EXCEPT !.value.state = "UP_TO_DATE"],
                   out |-> m.value.val, ev |-> ev1, changed |-> FALSE]
           Reread(dep) ==
             Confirm(dep, [m EXCEPT !.map = MapSet(m.map, "value", dep.ref)],
                     IF dep.evaluated THEN {"value"} ELSE {})
       IN Reread(ComputedGet(m.map["value"], snap["value"], TRUE))
  ELSE RecomputeModelValue(m, snap, {})

\* Mutant: a write of the box re-initialises the model's own state.
PropagateBoxChangedResetsModel(m) ==
  [m EXCEPT !.map = [k \in DOMAIN m.map |->
                       IF m.map[k].state = "NOT_TRACKING" THEN m.map[k]
                       ELSE [m.map[k] EXCEPT !.state = "STALE"]],
            !.multiplier = InitialMultiplier,
            !.value.state = IF @ = "NOT_TRACKING" THEN @ ELSE "STALE"]

\* A change of the box reaches its observers: every observed per-key computed
\* becomes stale, and model.value, which observes the computed of `value`,
\* possibly stale.  Nothing is evaluated.
PropagateBoxChanged(m) ==
  LET stale(ref) == IF ref.state = "NOT_TRACKING" THEN ref
                    ELSE [ref EXCEPT !.state = "STALE"]
      hit == "value" \in DOMAIN m.map /\ m.map["value"].state # "NOT_TRACKING"
  IN [m EXCEPT !.map = [k \in DOMAIN m.map |-> stale(m.map[k])],
               !.value.state = IF hit /\ @ = "UP_TO_DATE" THEN "POSSIBLY_STALE" ELSE @]

\* The observer's reaction is disposed: model.value and the per-key computeds
\* lose their observers and are suspended.
Suspend(m) ==
  [m EXCEPT !.map = [k \in DOMAIN m.map |-> NewComputed(m.map[k].equals)],
            !.value = [state |-> "NOT_TRACKING", val |-> NoCall, read |-> NoCall]]

\* ------------------------------------------------------------------ state
VARIABLES
  Model,          \* the model class given to observerWithModel (its annotations)
  baseComponent,  \* the render target given to observerWithModel
  wrapped,        \* the outcome of the wrap call: the component, or the error
  useForwardRef,  \* whether baseComponent was a forwardRef component
  phase,          \* per slot: "UNINITIALIZED", "MOUNTED" or "DISPOSED"
  props,          \* per slot: the props of the last render of observerComponent
  ref,            \* per slot: the ref of the last render of observerComponent
  refProps,       \* per slot: the useRef cell holding the box [id, value]
  refModel,       \* per slot: the useRef cell holding the model
  wrapperProps,   \* per slot: the props ObserverWrapper was last rendered with
  observing,      \* per slot: the observables the observer's reaction tracks
  pc,             \* per slot: "idle", "effects" (passive effects pending),
                  \*           "update" (forced update of ObserverWrapper pending)
                  \*           or "failed" (the last execution threw)
  mountEffect,    \* per slot: the mount effect has run and its cleanup is registered
  renderCount,    \* per slot: executions of the render target (refCounter)
  shown,          \* per slot: the output of the last execution
  seen,           \* per slot: what the last execution read: the snapshot and multiplier
  changedSince,   \* per slot: observables changed since the last execution
  boxWrites,      \* per slot: calls of box.set
  boxesMade,      \* per slot: boxes allocated by this instance
  modelsMade,     \* per slot: createModel calls of this instance
  disposeCalls,   \* per slot: dispose() calls on this instance's model
  evals,          \* per slot: evaluations per computation
  evalAt,         \* per slot and key: the number of box writes at the last
                  \*           evaluation of the key's computation (-1: never)
  lastGet,        \* per slot: result of the last model.get call made from outside
                  \*           since the instance was mounted or unmounted
  passes,         \* per slot: renders of observerComponent
  parentRenders,  \* per slot: times the parent rendered the element
  outputs,        \* per slot: the model.value each execution showed, in order
  lastEvent,      \* per slot: the last mount, parent render or model action
  direct,         \* a model constructed directly with new Model()
  directGet,      \* result of the last get call on it
  nextId,         \* next object identity
  events          \* external events delivered so far

vars == << Model, baseComponent, wrapped, useForwardRef, phase, props, ref, refProps, refModel,
           wrapperProps, observing, pc, mountEffect, renderCount, shown, seen,
           changedSince, boxWrites, boxesMade, modelsMade, disposeCalls, evals,
           evalAt, lastGet, passes, parentRenders, outputs, lastEvent, direct,
           directGet, nextId, events >>

config == << Model, baseComponent, wrapped, useForwardRef >>
directVars == << direct, directGet >>

\* What lastEvent records of an event: its kind, the render count before it,
\* and whether it changed the prop `value` or the ref.
NoEvent == [kind |-> "none", renderCount |-> 0, valueChanged |-> FALSE,
            refChanged |-> FALSE]

Computations == Keys \cup {"model.value"}
NoEvals == [c \in Computations |-> 0]
Count(ev, set) == [c \in Computations |-> IF c \in set THEN ev[c] + 1 ELSE ev[c]]
NeverEvaluated == [k \in Keys |-> -1]
Stamp(at, set, writes) == [k \in Keys |-> IF k \in set THEN writes ELSE at[k]]

Init ==
  /\ Model \in ModelClasses
  /\ baseComponent \in BaseComponents
  /\ wrapped = observerWithModel(baseComponent).component
  /\ useForwardRef = observerWithModel(baseComponent).useForwardRef
  /\ phase = [i \in Slots |-> "UNINITIALIZED"]
  /\ props = [i \in Slots |-> Null]
  /\ ref = [i \in Slots |-> "none"]
  /\ refProps = [i \in Slots |-> Null]
  /\ refModel = [i \in Slots |-> Null]
  /\ wrapperProps = [i \in Slots |-> Null]
  /\ observing = [i \in Slots |-> {}]
  /\ pc = [i \in Slots |-> "idle"]
  /\ mountEffect = [i \in Slots |-> FALSE]
  /\ renderCount = [i \in Slots |-> 0]
  /\ shown = [i \in Slots |-> Null]
  /\ seen = [i \in Slots |-> Null]
  /\ changedSince = [i \in Slots |-> {}]
  /\ boxWrites = [i \in Slots |-> 0]
  /\ boxesMade = [i \in Slots |-> 0]
  /\ modelsMade = [i \in Slots |-> 0]
  /\ disposeCalls = [i \in Slots |-> 0]
  /\ evals = [i \in Slots |-> NoEvals]
  /\ evalAt = [i \in Slots |-> NeverEvaluated]
  /\ lastGet = [i \in Slots |-> NoCall]
  /\ passes = [i \in Slots |-> 0]
  /\ parentRenders = [i \in Slots |-> 0]
  /\ outputs = [i \in Slots |-> << >>]
  /\ lastEvent = [i \in Slots |-> NoEvent]
  /\ direct = Null
  /\ directGet = NoCall
  /\ nextId = 1
  /\ events = 0

\* ------------------------------------------------------------ the wrapper
\* Mutant: the box and the model are allocated on every render.
CellsReallocated(cellProps, cellModel, p, id) ==
  [refProps |-> Some([id |-> id, value |-> p]),
   refModel |-> Some(createModel(id + 1, Model))]

\* Mutant: the box and the model are kept outside the component function, so
\* every instance finds the cells the first instance filled.
CellsShared(cellProps, cellModel, p, id) ==
  LET holders == {j \in Slots : refProps[j] # Null /\ refModel[j] # Null}
      first == CHOOSE j \in holders : TRUE
  IN IF holders # {}
     THEN [refProps |-> refProps[first], refModel |-> refModel[first]]
     ELSE [refProps |-> Some([id |-> id, value |-> p]),
           refModel |-> Some(createModel(id + 1, Model))]

\* The two useRef cells of observerComponent: each is filled on the render that
\* finds it empty and kept by every later render.
ObserverComponentCells(cellProps, cellModel, p, id) ==
  [refProps |-> IF cellProps = Null
                THEN Some([id |-> id, value |-> p])
                ELSE cellProps,
   refModel |-> IF cellModel = Null
                THEN Some(createModel(id + 1, Model))
                ELSE cellModel]

\* Mutant: observerComponent is not memoized.
MemoNeverBails(prevProps, prevRef, p, r) == FALSE

\* React.memo around observerComponent (around forwardRef(observerComponent)
\* for a forwardRef target): the render is skipped when the props are
\* shallow-equal to those of the last render and the ref is the same.
MemoBailout(prevProps, prevRef, p, r) ==
  ShallowEqual(prevProps, p) /\ prevRef = r

\* Mutant: ObserverWrapper is rendered on every render of observerComponent.
WrapperNeverBails(prev, next) == FALSE

\* observer()'s memo around ObserverWrapper: its props { model, $props,
\* innerRef } are compared by reference with those of its last render.
WrapperBailout(prev, next) == prev = Some(next)

\* Mutant: ObserverWrapper calls render without the innerRef.
ExecRenderWithoutRef(m, snap, r) ==
  LET Result(rv) ==
        [m |-> rv.m, ev |-> rv.ev,
         shown |-> [original |-> IF useForwardRef THEN Null ELSE Some(snap["value"]),
                    value |-> rv.out, ref |-> "none"]]
  IN Result(ModelValueRead(m, snap))

\* One execution of ObserverWrapper's function inside the observer's reaction:
\* render({ ...$props.get(), model }, innerRef) with the test component, which
\* shows the prop `value` (the plain component) and model.value.
ExecRender(m, snap, r) ==
  LET Result(rv) ==
        [m |-> rv.m, ev |-> rv.ev,
         shown |-> [original |-> IF useForwardRef THEN Null ELSE Some(snap["value"]),
                    value |-> rv.out, ref |-> r]]
  IN Result(ModelValueRead(m, snap))

\* Mutant: the effect writes the box without comparing.
SyncPropsAlways(box, p) == [box |-> [box EXCEPT !.value = p], written |-> TRUE]

\* Mutant: the effect never writes the box.
SyncPropsSkipped(box, p) == [box |-> box, written |-> FALSE]

\* The effect on [props]: inside runInAction, box.set(props) unless props is
\* shallow-equal to the snapshot the box holds.
SyncProps(box, p) ==
  IF ~ShallowEqual(p, box.value)
  THEN [box |-> [box EXCEPT !.value = p], written |-> TRUE]
  ELSE [box |-> box, written |-> FALSE]

\* Mutant: the mount effect returns no cleanup.
CleanupWithoutDispose(cell) == [cell |-> cell, calls |-> 0]

\* The cleanup the mount effect returns: () => refModel.current?.dispose().
\* `calls` is the number of dispose() calls it makes.
MountEffectCleanup(cell) ==
  IF cell # Null
  THEN [cell |-> Some(dispose(cell[1])), calls |-> 1]
  ELSE [cell |-> cell, calls |-> 0]

\* A render of observerComponent with props p and ref r, and within the same
\* pass the render of the ObserverWrapper element it returns unless the
\* observer's memo skips it.  `fresh` is the first render of a new instance:
\* its cells are empty.  The passive effects are left pending.
RenderObserverComponent(i, fresh, p, r) ==
  LET cellProps == IF fresh THEN Null ELSE refProps[i]
      cellModel == IF fresh THEN Null ELSE refModel[i]
      prevWrapper == IF fresh THEN Null ELSE wrapperProps[i]
  IN \E cells \in {ObserverComponentCells(cellProps, cellModel, p, nextId)} :
     \E box \in {cells.refProps[1]}, m0 \in {cells.refModel[1]} :
     \E next \in {[innerRef |-> r, model |-> m0.id, box |-> box.id]} :
     \E runs \in {~WrapperBailout(prevWrapper, next)} :
     \E ex \in {ExecRender(m0, box.value, r)} :
     \E newBox \in {IF cells.refProps # cellProps THEN 1 ELSE 0},
        newModel \in {IF cells.refModel # cellModel THEN 1 ELSE 0} :
     /\ props' = [props EXCEPT ![i] = Some(p)]
     /\ ref' = [ref EXCEPT ![i] = r]
     /\ refProps' = [refProps EXCEPT ![i] = cells.refProps]
     /\ refModel' = [refModel EXCEPT ![i] = IF runs THEN Some(ex.m) ELSE cells.refModel]
     /\ wrapperProps' = [wrapperProps EXCEPT ![i] = Some(next)]
     /\ observing' = [observing EXCEPT ![i] = IF runs THEN {"$props", "model.value"} ELSE @]
     /\ pc' = [pc EXCEPT ![i] = "effects"]
     /\ renderCount' = [renderCount EXCEPT ![i] =
                          (IF fresh THEN 0 ELSE @) + (IF runs THEN 1 ELSE 0)]
     /\ shown' = [shown EXCEPT ![i] = IF runs THEN Some(ex.shown) ELSE @]
     /\ outputs' = [outputs EXCEPT ![i] =
                      IF runs THEN Append(IF fresh THEN << >> ELSE @, ex.shown.value)
                      ELSE @]
     /\ passes' = [passes EXCEPT ![i] = (IF fresh THEN 0 ELSE @) + 1]
     /\ seen' = [seen EXCEPT ![i] =
                   IF runs THEN Some([snapshot |-> box.value, multiplier |-> ex.m.multiplier])
                   ELSE @]
     /\ changedSince' = [changedSince EXCEPT ![i] = IF runs THEN {} ELSE @]
     /\ boxesMade' = [boxesMade EXCEPT ![i] = (IF fresh THEN 0 ELSE @) + newBox]
     /\ modelsMade' = [modelsMade EXCEPT ![i] = (IF fresh THEN 0 ELSE @) + newModel]
     /\ evals' = [evals EXCEPT ![i] =
                    Count(IF fresh THEN NoEvals ELSE @, IF runs THEN ex.ev ELSE {})]
     /\ evalAt' = [evalAt EXCEPT ![i] =
                     Stamp(IF fresh THEN NeverEvaluated ELSE @,
                           IF runs THEN ex.ev ELSE {},
                           IF fresh THEN 0 ELSE boxWrites[i])]
     /\ nextId' = IF newBox + newModel > 0 THEN nextId + 2 ELSE nextId

\* ---------------------------------------------------------------- actions
\* The parent mounts the component in slot i: the first render of a new
\* instance.
Mount(i, p, r) ==
  /\ wrapped.kind = "return"
  /\ phase[i] # "MOUNTED"
  /\ pc[i] = "idle"
  /\ events < MaxEvents
  /\ useForwardRef \/ r = "none"
  /\ RenderObserverComponent(i, TRUE, p, r)
  /\ phase' = [phase EXCEPT ![i] = "MOUNTED"]
  /\ mountEffect' = [mountEffect EXCEPT ![i] = FALSE]
  /\ boxWrites' = [boxWrites EXCEPT ![i] = 0]
  /\ disposeCalls' = [disposeCalls EXCEPT ![i] = 0]
  /\ lastGet' = [lastGet EXCEPT ![i] = NoCall]
  /\ parentRenders' = [parentRenders EXCEPT ![i] = 1]
  /\ lastEvent' = [lastEvent EXCEPT ![i] = [NoEvent EXCEPT !.kind = "mount"]]
  /\ events' = events + 1
  /\ UNCHANGED << config, directVars >>

\* The passive effects of observerComponent run: the mount effect registers
\* the cleanup that disposes the model, the effect on [props] synchronises the
\* box.  A write of the box invalidates the observer's reaction, which reads
\* $props.get(), and a forced update of ObserverWrapper is scheduled.
RunEffects(i) ==
  /\ pc[i] = "effects"
  /\ \E s \in {SyncProps(refProps[i][1], props[i][1])} :
        /\ refProps' = [refProps EXCEPT ![i] = Some(s.box)]
        /\ boxWrites' = [boxWrites EXCEPT ![i] = IF s.written THEN @ + 1 ELSE @]
        /\ refModel' = [refModel EXCEPT ![i] =
                          IF s.written THEN Some(PropagateBoxChanged(@[1])) ELSE @]
        /\ changedSince' = [changedSince EXCEPT ![i] =
                              IF s.written THEN @ \cup {"$props"} ELSE @]
        /\ pc' = [pc EXCEPT ![i] =
                    IF s.written /\ "$props" \in observing[i] THEN "update" ELSE "idle"]
  /\ mountEffect' = [mountEffect EXCEPT ![i] = TRUE]
  /\ UNCHANGED << config, directVars, phase, props, ref, wrapperProps, observing,
                  renderCount, shown, seen, boxesMade, modelsMade, disposeCalls,
                  evals, evalAt, lastGet, passes, parentRenders, outputs, lastEvent,
                  nextId, events >>

\* The forced update of ObserverWrapper: its function runs again, tracked.
\* An execution that throws leaves the instance failed, for the host to remove.
ForcedUpdate(i) ==
  /\ pc[i] = "update"
  /\ \E box \in {refProps[i][1]} :
     \E ex \in {ExecRender(refModel[i][1], box.value, wrapperProps[i][1].innerRef)} :
        /\ refModel' = [refModel EXCEPT ![i] = Some(ex.m)]
        /\ renderCount' = [renderCount EXCEPT ![i] = @ + 1]
        /\ shown' = [shown EXCEPT ![i] = Some(ex.shown)]
        /\ outputs' = [outputs EXCEPT ![i] = Append(@, ex.shown.value)]
        /\ seen' = [seen EXCEPT ![i] =
                      Some([snapshot |-> box.value, multiplier |-> ex.m.multiplier])]
        /\ evals' = [evals EXCEPT ![i] = Count(@, ex.ev)]
        /\ evalAt' = [evalAt EXCEPT ![i] = Stamp(@, ex.ev, boxWrites[i])]
        /\ pc' = [pc EXCEPT ![i] =
                    IF ex.shown.value.kind = "throw" THEN "failed" ELSE "idle"]
  /\ changedSince' = [changedSince EXCEPT ![i] = {}]
  /\ observing' = [observing EXCEPT ![i] = {"$props", "model.value"}]
  /\ UNCHANGED << config, directVars, phase, props, ref, refProps, wrapperProps,
                  mountEffect, boxWrites, boxesMade, modelsMade,
                  disposeCalls, lastGet, passes, parentRenders, lastEvent, nextId,
                  events >>

\* The parent re-renders and passes props p and ref r to the mounted instance.
ParentRender(i, p, r) ==
  /\ phase[i] = "MOUNTED"
  /\ pc[i] = "idle"
  /\ events < MaxEvents
  /\ useForwardRef \/ r = "none"
  /\ events' = events + 1
  /\ parentRenders' = [parentRenders EXCEPT ![i] = @ + 1]
  /\ lastEvent' = [lastEvent EXCEPT ![i] =
                     [kind |-> "props", renderCount |-> renderCount[i],
                      valueChanged |-> p["value"] # props[i][1]["value"],
                      refChanged |-> r # ref[i]]]
  /\ IF MemoBailout(props[i][1], ref[i], p, r)
     THEN UNCHANGED << props, ref, refProps, refModel, wrapperProps, observing, pc,
                       renderCount, shown, seen, changedSince, boxesMade,
                       modelsMade, evals, evalAt, passes, outputs, nextId >>
     ELSE RenderObserverComponent(i, FALSE, p, r)
  /\ UNCHANGED << config, directVars, phase, mountEffect, boxWrites, disposeCalls,
                  lastGet >>

\* The click handler of the test component: runInAction(() => model.multiplier
\* *= 10).  model.value becomes stale; at the end of the action the observer's
\* reaction re-reads it and, when its value changed, forces an update.
SetMultiplier(i) ==
  /\ phase[i] = "MOUNTED"
  /\ pc[i] = "idle"
  /\ events < MaxEvents
  /\ events' = events + 1
  /\ lastEvent' = [lastEvent EXCEPT ![i] =
                     [NoEvent EXCEPT !.kind = "multiplier",
                                     !.renderCount = renderCount[i]]]
  /\ LET m == refModel[i][1]
         m1 == [m EXCEPT !.multiplier = @ * 10,
                         !.value.state = IF @ = "NOT_TRACKING" THEN @ ELSE "STALE"]
         watched == "model.value" \in observing[i]
     IN \E rv \in {ModelValueRead(m1, refProps[i][1].value)} :
        \E fire \in {watched /\ rv.changed} :
        /\ refModel' = [refModel EXCEPT ![i] = IF watched THEN Some(rv.m) ELSE Some(m1)]
        /\ evals' = [evals EXCEPT ![i] = IF watched THEN Count(@, rv.ev) ELSE @]
        /\ evalAt' = [evalAt EXCEPT ![i] =
                        IF watched THEN Stamp(@, rv.ev, boxWrites[i]) ELSE @]
        /\ changedSince' = [changedSince EXCEPT ![i] =
                              IF fire THEN @ \cup {"model.value"} ELSE @]
        /\ pc' = [pc EXCEPT ![i] = IF fire THEN "update" ELSE "idle"]
  /\ UNCHANGED << config, directVars, phase, props, ref, refProps, wrapperProps,
                  observing, mountEffect, renderCount, shown, seen, boxWrites,
                  boxesMade, modelsMade, disposeCalls, lastGet, passes,
                  parentRenders, outputs, nextId >>

\* The parent removes the instance, or the host removes it after its render
\* threw: the observer's reaction is disposed and the cleanup of the mount
\* effect runs refModel.current?.dispose().
Unmount(i) ==
  /\ phase[i] = "MOUNTED"
  /\ pc[i] \in {"idle", "failed"}
  /\ pc' = [pc EXCEPT ![i] = "idle"]
  /\ events < MaxEvents
  /\ events' = events + 1
  /\ phase' = [phase EXCEPT ![i] = "DISPOSED"]
  /\ observing' = [observing EXCEPT ![i] = {}]
  /\ wrapperProps' = [wrapperProps EXCEPT ![i] = Null]
  /\ LET suspended == IF refModel[i] = Null THEN Null ELSE Some(Suspend(refModel[i][1]))
     IN \E c \in {IF mountEffect[i] THEN MountEffectCleanup(suspended)
                   ELSE [cell |-> suspended, calls |-> 0]} :
        /\ refModel' = [refModel EXCEPT ![i] = c.cell]
        /\ disposeCalls' = [disposeCalls EXCEPT ![i] = @ + c.calls]
  /\ lastGet' = [lastGet EXCEPT ![i] = NoCall]
  /\ UNCHANGED << config, directVars, props, ref, refProps, mountEffect,
                  renderCount, shown, seen, changedSince, boxWrites, boxesMade,
                  modelsMade, evals, evalAt, passes, parentRenders, outputs,
                  lastEvent, nextId >>

\* The host re-invokes the effects of the mounted instance without remounting
\* it (StrictMode's second mount, a hidden subtree shown again): every cleanup
\* runs, then every effect runs again, the useRef cells kept.  The cleanup of
\* observer's subscription disposes the reaction and the cleanup of the mount
\* effect calls dispose(); the mount effect registers its cleanup again, the
\* effect on [props] compares again, and observer's new subscription finds no
\* reaction, creates one and forces an update of ObserverWrapper.
ReinvokeEffects(i) ==
  /\ phase[i] = "MOUNTED"
  /\ pc[i] = "idle"
  /\ mountEffect[i]
  /\ events < MaxEvents
  /\ events' = events + 1
  /\ \E c \in {MountEffectCleanup(Some(Suspend(refModel[i][1])))} :
     \E s \in {SyncProps(refProps[i][1], props[i][1])} :
        /\ disposeCalls' = [disposeCalls EXCEPT ![i] = @ + c.calls]
        /\ refProps' = [refProps EXCEPT ![i] = Some(s.box)]
        /\ boxWrites' = [boxWrites EXCEPT ![i] = IF s.written THEN @ + 1 ELSE @]
        /\ refModel' = [refModel EXCEPT ![i] =
                          IF s.written THEN Some(PropagateBoxChanged(c.cell[1]))
                          ELSE c.cell]
        /\ changedSince' = [changedSince EXCEPT ![i] =
                              IF s.written THEN @ \cup {"$props"} ELSE @]
  /\ observing' = [observing EXCEPT ![i] = {}]
  /\ pc' = [pc EXCEPT ![i] = "update"]
  /\ UNCHANGED << config, directVars, phase, props, ref, wrapperProps, mountEffect,
                  renderCount, shown, seen, boxesMade, modelsMade, evals, evalAt,
                  lastGet, passes, parentRenders, outputs, lastEvent, nextId >>

\* Code holding the model (an event handler, a test) calls model.get(key)
\* outside any render.
ExternalGet(i, key) ==
  /\ refModel[i] # Null
  /\ events < MaxEvents
  /\ events' = events + 1
  /\ \E g \in {CallGet(refModel[i][1], key, refProps[i][1].value, FALSE)} :
     \E confirm \in {g.changed /\ key = "value" /\ g.m.value.state = "POSSIBLY_STALE"} :
        /\ refModel' = [refModel EXCEPT ![i] =
                          Some(IF confirm THEN [g.m EXCEPT !.value.state = "STALE"] ELSE g.m)]
        /\ evals' = [evals EXCEPT ![i] = Count(@, g.ev)]
        /\ evalAt' = [evalAt EXCEPT ![i] = Stamp(@, g.ev, boxWrites[i])]
        /\ lastGet' = [lastGet EXCEPT ![i] = g.out]
  /\ UNCHANGED << config, directVars, phase, props, ref, refProps, wrapperProps,
                  observing, pc, mountEffect, renderCount, shown, seen, changedSince,
                  boxWrites, boxesMade, modelsMade, disposeCalls, passes,
                  parentRenders, outputs, lastEvent, nextId >>

\* Application code constructs a model itself: new Model().
ConstructDirect ==
  /\ direct = Null
  /\ events < MaxEvents
  /\ events' = events + 1
  /\ direct' = Some(NewModel(nextId, Model))
  /\ nextId' = nextId + 1
  /\ UNCHANGED << config, directGet, phase, props, ref, refProps, refModel,
                  wrapperProps, observing, pc, mountEffect, renderCount, shown, seen,
                  changedSince, boxWrites, boxesMade, modelsMade, disposeCalls,
                  evals, evalAt, lastGet, passes, parentRenders, outputs,
                  lastEvent >>

\* ... and calls get(key) on it; no box exists for it.
DirectGet(key) ==
  /\ direct # Null
  /\ events < MaxEvents
  /\ events' = events + 1
  /\ \E g \in {CallGet(direct[1], key, [k \in Keys |-> "undefined"], FALSE)} :
        /\ direct' = Some(g.m)
        /\ directGet' = g.out
  /\ UNCHANGED << config, phase, props, ref, refProps, refModel, wrapperProps,
                  observing, pc, mountEffect, renderCount, shown, seen, changedSince,
                  boxWrites, boxesMade, modelsMade, disposeCalls, evals, evalAt,
                  lastGet, passes, parentRenders, outputs, lastEvent, nextId >>

\* The steps of the instance in slot i, the parent passing props of P and
\* refs of Rf.
StepOver(i, P, Rf) ==
  \/ \E p \in P, r \in Rf : Mount(i, p, r)
  \/ RunEffects(i)
  \/ ForcedUpdate(i)
  \/ \E p \in P, r \in Rf : ParentRender(i, p, r)
  \/ SetMultiplier(i)
  \/ Unmount(i)
  \/ \E key \in Keys : ExternalGet(i, key)

Step(i) == StepOver(i, PropsSet, RefSet)

Next ==
  \/ Step(1)
  \/ ConstructDirect
  \/ \E key \in Keys : DirectGet(key)

Spec == Init /\ [][Next]_vars

\* One instance under a host that may re-invoke its effects.
InitStrict == Init /\ wrapped.kind = "return"
NextStrict == Step(1) \/ ReinvokeEffects(1)

SpecStrict == InitStrict /\ [][NextStrict]_vars

\* Two elements of the wrapped component under one parent: every step is a
\* step of one of the two instances.
\* The props the parent passes in the two-instance scenario.
PropsTwo == [value : {10, 11}, text : {"test"}]
InitTwo == Init /\ wrapped.kind = "return"
NextTwo == StepOver(1, PropsTwo, RefSet) \/ StepOver(2, PropsTwo, RefSet)

SpecTwo == InitTwo /\ [][NextTwo]_vars

\* ------------------------------------------------------------------ claims
Mounted(i) == phase[i] = "MOUNTED"
\* A step of a mounted instance that leaves it mounted.
StaysMounted(i) == phase[i] = "MOUNTED" /\ phase'[i] = "MOUNTED"
\* The step in which the pending passive effects run.
EffectsStep(i) == pc[i] = "effects" /\ pc'[i] # "effects"
\* The step executes the render target of a mounted instance again.
Reexecutes(i) == StaysMounted(i) /\ renderCount'[i] # renderCount[i]

\* C1 as stated: with the innerRef unchanged, the render target of a mounted
\* instance is executed again only when a value the wrapped content read at
\* its previous execution (the prop `value`, read directly and through
\* model.value, or the multiplier) has changed; an update that changes only
\* `text`, which the content never reads, does not execute it again.
C1_Original ==
  [][\A i \in {1} :
       (Reexecutes(i) /\ wrapperProps'[i] = wrapperProps[i])
         => \/ seen[i][1].snapshot["value"] # refProps'[i][1].value["value"]
            \/ seen[i][1].multiplier # refModel'[i][1].multiplier]_vars

\* C1 amended: the render target of a mounted instance is executed again, once
\* per step, only when an observable its previous execution tracked has
\* changed since (the box, which it reads whole, was rewritten, or model.value
\* changed) or the props of ObserverWrapper changed (a new innerRef); and a
\* parent render passing shallow-equal props and the same ref does not execute
\* it again.
C1_ReexecutionCauses ==
  [][\A i \in {1} :
       /\ Reexecutes(i)
            => /\ renderCount'[i] = renderCount[i] + 1
               /\ \/ changedSince[i] \cap observing[i] # {}
                  \/ wrapperProps'[i] # wrapperProps[i]
       /\ ("$props" \in changedSince'[i] /\ "$props" \notin changedSince[i] /\ StaysMounted(i))
            => boxWrites'[i] = boxWrites[i] + 1
       /\ (StaysMounted(i) /\ parentRenders'[i] # parentRenders[i]
             /\ ShallowEqual(props'[i][1], props[i][1]) /\ ref'[i] = ref[i])
            => renderCount'[i] = renderCount[i]]_vars

\* An update that changed `text` only re-executed the render target: the
\* comparer of `value` is comparer.identity, the box was written once, and
\* model.value was evaluated at mount only.
C1_Witness ==
  /\ Model = TestModel /\ ~useForwardRef
  /\ Mounted(1) /\ pc[1] = "idle"
  /\ renderCount[1] = 2 /\ boxWrites[1] = 1
  /\ evals[1]["model.value"] = 1
  /\ refModel[1][1].multiplier = InitialMultiplier

\* C2: across every step of a mounted instance the box and the model keep
\* their identity, and the instance has allocated exactly one of each.
C2_IdentityStable ==
  [][\A i \in {1} :
       StaysMounted(i)
         => /\ refProps'[i][1].id = refProps[i][1].id
            /\ refModel'[i][1].id = refModel[i][1].id
            /\ boxesMade'[i] = 1
            /\ modelsMade'[i] = 1]_vars

\* A mounted instance that was rendered again with changed props, its box
\* rewritten and its render target executed again.
C2_Witness ==
  Mounted(1) /\ passes[1] >= 2 /\ boxWrites[1] >= 1 /\ renderCount[1] >= 2

\* C3: a mounted instance holds exactly one model, whose accessor is installed,
\* which was never disposed, whose cache still holds the key the render read,
\* and on which no get call has failed.
C3_OneLiveModel ==
  \A i \in {1} :
    Mounted(i)
      => /\ refModel[i] # Null
         /\ modelsMade[i] = 1
         /\ refModel[i][1].get = "installed"
         /\ disposeCalls[i] = 0
         /\ "value" \in DOMAIN refModel[i][1].map
         /\ lastGet[i].kind \in {"none", "return"}

\* A mounted instance after a property update, on whose model get was called.
C3_Witness ==
  Mounted(1) /\ boxWrites[1] >= 1 /\ lastGet[1].kind = "return"

\* The events C4 counts: a model action on the multiplier, or a parent render
\* that changes the prop `value` and keeps the ref.
Counted(i) ==
  \/ lastEvent[i].kind = "multiplier"
  \/ lastEvent[i].kind = "props" /\ lastEvent[i].valueChanged /\ ~lastEvent[i].refChanged

C5_WriteOnlyWhenChanged ==
  /\ [](\A i \in {1} : boxWrites[i] <= passes[i])
  /\ [][\A i \in {1} :
          /\ (EffectsStep(i) /\ ShallowEqual(props[i][1], refProps[i][1].value))
               => /\ refProps'[i] = refProps[i]
                  /\ boxWrites'[i] = boxWrites[i]
                  /\ \A k \in Keys : evals'[i][k] = evals[i][k]
          /\ (StaysMounted(i) /\ passes'[i] # passes[i]
                /\ ShallowEqual(props'[i][1], refProps[i][1].value))
               => /\ refProps'[i] = refProps[i]
                  /\ \A k \in Keys : evals'[i][k] = evals[i][k]
          /\ (StaysMounted(i) /\ (boxWrites'[i] # boxWrites[i] \/ refProps'[i] # refProps[i]))
               => /\ EffectsStep(i)
                  /\ ~ShallowEqual(props[i][1], refProps[i][1].value)
                  /\ boxWrites'[i] = boxWrites[i] + 1
                  /\ refProps'[i][1].value = props[i][1]]_vars

\* A forwardRef instance rendered again with shallow-equal props (a new ref
\* only), whose effects have run without writing the box.
C5_Witness ==
  /\ Mounted(1) /\ pc[1] = "idle"
  /\ passes[1] = 2 /\ boxWrites[1] = 0 /\ renderCount[1] = 2

\* C6: a parent render that passes the same props and ref as the last render
\* of the instance does not execute the render target; observerComponent is
\* not even rendered.
C6_IdenticalPropsSkipRender ==
  [][\A i \in {1} :
       (StaysMounted(i) /\ parentRenders'[i] = parentRenders[i] + 1
          /\ props'[i] = props[i] /\ ref'[i] = ref[i])
         => /\ renderCount'[i] = renderCount[i]
            /\ passes'[i] = passes[i]]_vars

\* The parent has rendered the element three times and the instance rendered
\* once.
C6_Witness ==
  Mounted(1) /\ parentRenders[1] = 3 /\ passes[1] = 1 /\ renderCount[1] = 1

\* C7: in no step of a mounted instance is model.value, which depends on
\* get('value'), evaluated when the box's snapshot, replaced or not, holds for
\* `value` a value that the key's annotated comparer considers equal to the
\* one model.value was last computed from, and the multiplier is unchanged.
C7_EqualByComparerNoRecompute ==
  [][\A i \in {1} :
       (/\ StaysMounted(i)
        /\ refModel[i][1].annotations["value"] # "none"
        /\ refModel[i][1].value.read.kind = "return"
        /\ Equals(refModel[i][1].annotations["value"],
                  refModel[i][1].value.read.value[1],
                  refProps'[i][1].value["value"])
        /\ refModel'[i][1].multiplier = refModel[i][1].multiplier)
         => /\ evals'[i]["model.value"] = evals[i]["model.value"]
            /\ refModel'[i][1].value.val = refModel[i][1].value.val]_vars

\* With the custom comparer: the snapshot was replaced by one whose `value`
\* differs from the memoized one and is equal to it by the comparer; the
\* per-key computed was evaluated again, model.value never.
C7_Witness ==
  /\ Model["value"] = "sameDecade"
  /\ Mounted(1) /\ pc[1] = "idle"
  /\ boxWrites[1] >= 1 /\ renderCount[1] >= 2
  /\ refProps[1][1].value["value"] # refModel[1][1].map["value"].val[1]
  /\ evals[1]["value"] >= 2
  /\ evals[1]["model.value"] = 1

\* C8 as stated: a get call on the model of an unmounted instance, whose
\* dispose() has run, fails with the error die() throws.
C8_SameFailureAfterDispose ==
  \A i \in {1} :
    (phase[i] = "DISPOSED" /\ lastGet[i].kind # "none")
      => lastGet[i] = Throw(DieError)

\* C9: a get call on a model constructed directly throws die()'s error and
\* returns nothing; the model's accessor stays die.
C9_DirectGetThrows ==
  /\ direct # Null => direct[1].get = "die"
  /\ directGet.kind # "none"
       => /\ direct # Null
          /\ directGet.kind = "throw"
          /\ directGet.error = DieError
          /\ directGet.value = << >>

\* get was called on a directly constructed model.
C9_Witness == direct # Null /\ directGet.kind = "throw"

\* C10: the step that unmounts an instance calls dispose() exactly once, after
\* the mount effect has run, and leaves the accessor removed; no other step of
\* an instance calls dispose().
C10_DisposeOncePerMount ==
  [][\A i \in {1} :
       /\ (phase[i] = "MOUNTED" /\ phase'[i] = "DISPOSED")
            => /\ mountEffect[i]
               /\ disposeCalls[i] = 0
               /\ disposeCalls'[i] = 1
               /\ refModel'[i][1].get = "null"
       /\ disposeCalls'[i] # disposeCalls[i]
            => \/ phase[i] = "MOUNTED" /\ phase'[i] = "DISPOSED"
               \/ phase[i] = "DISPOSED" /\ phase'[i] = "MOUNTED" /\ disposeCalls'[i] = 0]_vars

\* The second instance mounted in the slot has been unmounted.
C10_Witness ==
  phase[1] = "DISPOSED" /\ disposeCalls[1] = 1 /\ refModel[1][1].id = 4

\* C11 as stated: no per-key computation is evaluated in the step that writes
\* the box, and every evaluation of a per-key computation after its first
\* follows a box write made since its previous evaluation.
C11_Original ==
  [][\A i \in {1} : \A k \in Keys :
       (StaysMounted(i) /\ evals'[i][k] # evals[i][k])
         => /\ boxWrites'[i] = boxWrites[i]
            /\ evals[i][k] > 0 => boxWrites[i] > evalAt[i][k]]_vars

\* C11 amended: no per-key computation is evaluated in the step that writes
\* the box; a per-key computation that is observed (a computed of the model
\* read by the render depends on it) is evaluated again only at a read, once,
\* when it is stale from a box write made since its previous evaluation.  A
\* computation that nothing observes is outside the statement: each get call
\* made outside a reactive context evaluates it.
C11_LazyAfterWrite ==
  [][\A i \in {1} : \A k \in Keys :
       /\ (StaysMounted(i) /\ boxWrites'[i] # boxWrites[i])
            => evals'[i][k] = evals[i][k]
       /\ (/\ StaysMounted(i)
           /\ evals'[i][k] # evals[i][k]
           /\ k \in DOMAIN refModel[i][1].map
           /\ refModel[i][1].map[k].state # "NOT_TRACKING")
            => /\ evals'[i][k] = evals[i][k] + 1
               /\ refModel[i][1].map[k].state = "STALE"
               /\ boxWrites[i] > evalAt[i][k]
               /\ evalAt'[i][k] = boxWrites[i]
               /\ refModel'[i][1].map[k].state = "UP_TO_DATE"]_vars

\* The observed computation of `value` was evaluated at mount and once more,
\* at the read that followed the one box write.
C11_Witness ==
  /\ Mounted(1) /\ pc[1] = "idle"
  /\ boxWrites[1] = 1
  /\ evals[1]["value"] = 2 /\ evalAt[1]["value"] = 1
  /\ refModel[1][1].map["value"].state = "UP_TO_DATE"

\* C12: when the render target is already memo-wrapped the wrap call has
\* thrown its error, no component exists, and no instance is ever rendered.
C12_DoubleWrapThrows ==
  baseComponent = "memo"
    => /\ wrapped = Throw(DoubleWrapError)
       /\ \A i \in Slots :
            /\ phase[i] = "UNINITIALIZED"
            /\ passes[i] = 0 /\ renderCount[i] = 0
            /\ refProps[i] = Null /\ refModel[i] = Null

\* The wrap call was made with a memo-wrapped target and the program went on:
\* the application constructed a model and called get on it.
C12_Witness ==
  baseComponent = "memo" /\ wrapped.kind = "throw" /\ directGet.kind = "throw"

\* C13: two instances never hold the same box or the same model, and a step
\* of one instance (a render, a box write, an accessor call, a model action,
\* its unmount) leaves the other's box and model (snapshot, per-key cache,
\* accessor, multiplier) as they were.
C13_InstancesIsolated ==
  /\ [](\A i \in Slots : \A j \in Slots \ {i} :
          (refModel[i] # Null /\ refModel[j] # Null)
            => /\ refModel[i][1].id # refModel[j][1].id
               /\ refProps[i][1].id # refProps[j][1].id)
  /\ [][\A i \in Slots : \A j \in Slots \ {i} :
          (\/ phase'[i] # phase[i]
           \/ props'[i] # props[i]
           \/ refProps'[i] # refProps[i]
           \/ refModel'[i] # refModel[i])
            => /\ refProps'[j] = refProps[j]
               /\ refModel'[j] = refModel[j]
               /\ phase'[j] = phase[j]]_vars

\* Both instances are mounted: the first had a model action, the second a
\* property update; each shows its own props and multiplier.
C13_Witness ==
  /\ Mounted(1) /\ pc[1] = "idle" /\ Mounted(2) /\ pc[2] = "idle"
  /\ refModel[1][1].multiplier = 100 /\ boxWrites[1] = 0
  /\ refModel[2][1].multiplier = InitialMultiplier /\ boxWrites[2] = 1
  /\ refProps[1][1].value # refProps[2][1].value
  /\ renderCount[1] = 2 /\ renderCount[2] = 2

\* C14: for a forwardRef target, in every state of a mounted instance the
\* last execution of the inner target received the ref the parent gave to the
\* produced component, so the node it rendered is the one that ref resolves
\* to, and the node's content is a value computed by the model: after mount,
\* the prop `value` times the multiplier 10.
C14_RefForwarded ==
  \A i \in {1} :
    (useForwardRef /\ Mounted(i))
      => /\ shown[i] # Null
         /\ shown[i][1].ref = ref[i]
         /\ shown[i][1].value.kind = "return"
         /\ lastEvent[i].kind = "mount"
              => shown[i][1].value = Return(props[i][1]["value"] * InitialMultiplier)

\* The scenario of the test: a forwardRef target mounted with a ref, value 10
\* and text "test" has rendered 100 into the node the ref resolves to.
C14_Witness ==
  /\ baseComponent = "forwardRef" /\ Model = TestModel
  /\ Mounted(1) /\ pc[1] = "idle" /\ lastEvent[1].kind = "mount"
  /\ props[1] = Some([value |-> 10, text |-> "test"])
  /\ ref[1] = "refA"
  /\ shown[1] = Some([original |-> Null, value |-> Return(100), ref |-> "refA"])

\* C15 as stated: whenever the render target of a mounted instance executes,
\* the snapshot the box holds at that execution is the latest props the
\* wrapper received; it never executes on an older snapshot.
C15_WrittenBeforeExecution ==
  [][\A i \in {1} :
       (Mounted(i)' /\ renderCount'[i] # renderCount[i])
         => ShallowEqual(seen'[i][1].snapshot, props'[i][1])]_vars

GetAllowed(i, key, out) ==
  LET m == refModel[i][1]
      cur == refProps[i][1].value[key]
      eq == IF m.annotations[key] # "none" THEN m.annotations[key] ELSE "identity"
  IN /\ out.kind = "return"
     /\ \/ out.value[1] = cur
        \/ /\ key \in DOMAIN m.map
           /\ m.map[key].val = out.value
           /\ Equals(eq, out.value[1], cur)

\* C17: in every state in which the accessor is installed, a call of get(key),
\* from a reactive context or from outside, returns for every key the value
\* the snapshot in the box holds for it, or the memoized value the key's
\* comparer finds equal to that; so did the last call made from the render's
\* model.value while that is up to date.
C17_GetReturnsCurrent ==
  \A i \in {1} :
    (refModel[i] # Null /\ refModel[i][1].get = "installed")
      => /\ \A key \in Keys : \A tracking \in BOOLEAN :
              GetAllowed(i, key,
                CallGet(refModel[i][1], key, refProps[i][1].value, tracking).out)
         /\ refModel[i][1].value.state = "UP_TO_DATE"
              => GetAllowed(i, "value", refModel[i][1].value.read)

\* With the custom comparer the box holds 11 for `value`, the computed still
\* memoizes 10, equal to it by the comparer, and get('value') returned 10.
C17_Witness ==
  /\ Model["value"] = "sameDecade"
  /\ Mounted(1) /\ pc[1] = "idle" /\ boxWrites[1] = 1
  /\ refProps[1][1].value["value"] = 11
  /\ refModel[1][1].map["value"].val = Some(10)
  /\ lastGet[1] = Return(10)

\* C18: a call of dispose() on a model that was already disposed leaves it as
\* the first call left it: the accessor removed, the cache empty, the same
\* model with its own state untouched; and disposing any model twice gives
\* what disposing it once gives.
C18_DisposeIdempotent ==
  /\ [](\A i \in {1} :
          refModel[i] # Null
            => dispose(dispose(refModel[i][1])) = dispose(refModel[i][1]))
  /\ [][\A i \in {1} :
          (/\ disposeCalls'[i] = disposeCalls[i] + 1
           /\ refModel[i] # Null
           /\ refModel[i][1].get = "null")
            => /\ refModel'[i][1].get = "null"
               /\ refModel'[i][1].map = EmptyMap
               /\ refModel'[i][1].id = refModel[i][1].id
               /\ refModel'[i][1].multiplier = refModel[i][1].multiplier
               /\ refModel'[i][1].annotations = refModel[i][1].annotations]_vars

\* dispose() was called twice on the model of one mount: when the effects were
\* re-invoked and again when the instance was removed.
C18_Witness ==
  /\ phase[1] = "DISPOSED" /\ disposeCalls[1] = 2 /\ modelsMade[1] = 1
  /\ refModel[1][1].get = "null" /\ refModel[1][1].map = EmptyMap

\* C19: a step of a mounted instance that writes the box leaves the model's
\* multiplier, its accessor and the set of keys in its cache unchanged, and a
\* step that changes the multiplier leaves the box, its snapshot and the
\* number of writes unchanged.
C19_SeparateState ==
  [][\A i \in {1} :
       /\ (StaysMounted(i) /\ boxWrites'[i] # boxWrites[i])
            => /\ refModel'[i][1].multiplier = refModel[i][1].multiplier
               /\ DOMAIN refModel'[i][1].map = DOMAIN refModel[i][1].map
               /\ refModel'[i][1].get = refModel[i][1].get
               /\ refModel'[i][1].id = refModel[i][1].id
       /\ (StaysMounted(i) /\ refModel'[i][1].multiplier # refModel[i][1].multiplier)
            => /\ refProps'[i] = refProps[i]
               /\ boxWrites'[i] = boxWrites[i]
               /\ props'[i] = props[i]]_vars

\* The scenario of the test: the multiplier was raised to 100 and the box was
\* rewritten; the box holds the latest props and the multiplier is still 100.
C19_Witness ==
  /\ Mounted(1) /\ pc[1] = "idle"
  /\ boxWrites[1] >= 1
  /\ refProps[1][1].value = props[1][1]
  /\ refModel[1][1].multiplier = 100
  /\ refModel[1][1].called = {"value"}

\* C20 as stated: once the effects of a mounted instance have been re-invoked
\* (dispose() was called while it stays mounted) its model still has the
\* accessor installed and no execution of the render target has failed.
C20_AccessorSurvivesReinvocation ==
  \A i \in {1} :
    (Mounted(i) /\ disposeCalls[i] > 0)
      => /\ refModel[i][1].get = "installed"
         /\ pc[i] # "failed"
         /\ shown[i][1].value.kind = "return"

====
